---- MODULE Spec2Model ----
(***************************************************************************)
(* healthcheckx: the Health registry/runner (core.py), the CheckResult     *)
(* record (result.py) and the overall_status reduction, as a state machine.*)
(*                                                                         *)
(* One Health instance.  A probe is an opaque zero-argument callable: each *)
(* invocation either returns a CheckResult (a fresh object, or an object   *)
(* the probe keeps and hands back every time) or raises.  While a probe is *)
(* being invoked time passes and register() may be called on the instance, *)
(* by the probe itself or by another execution context.                    *)
(*                                                                         *)
(* Optional values (Python's None) are sequences of length 0 or 1.         *)
(***************************************************************************)
EXTENDS Integers, Sequences, FiniteSets, TLC

\* ------------------------------------------------------------------ bounds
MaxChecks == 2
MaxRuns == 2
MaxClock == 1

\* ------------------------------------------------------------ result model
None == <<>>

Some(v) == <<v>>

HealthStatus == {"healthy", "degraded", "unhealthy"}

CheckResult(name, status, message, duration_ms) ==
    [name |-> name, status |-> status, message |-> message, duration_ms |-> duration_ms]

\* ------------------------------------------------------------------ probes
\* "check_cache" is a plain function (it exposes __name__); "partial" is a
\* callable object that exposes no __name__.
Probes == {"check_cache", "partial"}

DunderName(check) == IF check = "partial" THEN None ELSE Some(check)

\* The name a probe writes into the records it builds.
RecName(check) == IF check = "check_cache" THEN "cache" ELSE "queue"

\* The records one invocation of a probe may build and return.  A probe may
\* pre-set duration_ms itself.
ProbeRecords(check) ==
    { CheckResult(RecName(check), "healthy", None, None),
      CheckResult(RecName(check), "unhealthy", Some("down"), Some(-1)) }

\* The record object a probe keeps and hands back on every invocation, as it
\* is before any run.
KeptRecord(check) == CheckResult(RecName(check), "degraded", Some("kept"), None)

\* Errors a probe invocation may raise: class and text (str(e)).
\* ConnectionRefusedError derives from Exception; SystemExit derives from
\* BaseException only.
Errors ==
    { [cls |-> "ConnectionRefusedError", text |-> "refused"],
      [cls |-> "SystemExit", text |-> "1"] }

NoError == [cls |-> "", text |-> ""]

NoRecord == CheckResult("", "", None, None)

VARIABLES
    checks,         \* self._checks: the registry
    pc,             \* position of the caller in run(): idle, loop, probe, returned, raised
    idx,            \* the list iterator's index into self._checks
    start,          \* run()'s local start
    clock,          \* time.perf_counter()
    results,        \* run()'s local results: references to record objects
    kept,           \* the record object each probe keeps, by probe
    overall,        \* the last value overall_status returned for results, if any
    runs,           \* run() calls made so far
    log,            \* history: the invocations of the current run, in order
    regLog,         \* history: every probe passed to register(), in call order
    checksAtCall,   \* history: the registry when the current run() was called
    duringRun,      \* history: probes registered while the current run() was in progress
    checksAtReturn  \* history: the registry when the current run() ended

\* Scenarios of their own, each with its own specification below; a variable
\* is Unused outside its scenario.
VARIABLES
    fluent,         \* two Health instances, one configured by a chained expression
    reduce,         \* a caller of overall_status and the sequence it passes
    builtin,        \* a built-in probe, its connection, and the helper that registers it
    later,          \* a caller that keeps the sequence of one run() over the next
    live            \* run() reduced to its iterator, for whether it ends

scenes == <<fluent, reduce, builtin, later, live>>

\* The state of the one Health instance, its run() and its caller.
health == <<checks, pc, idx, start, clock, results, kept, overall, runs,
            log, regLog, checksAtCall, duringRun, checksAtReturn>>

vars == <<health, scenes>>

Unused == "unused"

\* A reference to a record object: either the object the probe keeps (looked
\* up in kept), or an object referenced from this one place only, held inline.
FreshRef(rec) == [shared |-> FALSE, probe |-> "", rec |-> rec]

KeptRef(check) == [shared |-> TRUE, probe |-> check, rec |-> KeptRecord(check)]

Deref(ref) == IF ref.shared THEN kept[ref.probe] ELSE ref.rec

\* The records of the result sequence, as a reader of the sequence sees them.
Records(refs) == [k \in 1..Len(refs) |-> Deref(refs[k])]

InRun == pc \in {"loop", "probe"}

\* ----------------------------------------------------------------- Health
Init ==
    /\ checks = <<>>
    /\ pc = "idle"
    /\ idx = 0
    /\ start = 0
    /\ clock = 0
    /\ results = <<>>
    /\ kept = [p \in Probes |-> KeptRecord(p)]
    /\ overall = None
    /\ runs = 0
    /\ log = <<>>
    /\ regLog = <<>>
    /\ checksAtCall = <<>>
    /\ duringRun = <<>>
    /\ checksAtReturn = <<>>
    /\ fluent = Unused
    /\ reduce = Unused
    /\ builtin = Unused
    /\ later = Unused
    /\ live = Unused

\* a registry that refuses a probe it already holds
RegisterOnce(check) ==
    /\ Len(checks) < MaxChecks
    /\ checks' = IF \E k \in 1..Len(checks) : checks[k] = check THEN checks
                 ELSE Append(checks, check)
    /\ regLog' = Append(regLog, check)
    /\ duringRun' = IF InRun THEN Append(duringRun, check) ELSE duringRun
    /\ UNCHANGED <<pc, idx, start, clock, results, kept, overall, runs,
                   log, checksAtCall, checksAtReturn>>
    /\ UNCHANGED scenes

\* register(check): self._checks.append(check); return self.  It may be called
\* at any moment, also while run() is in progress.
Register(check) ==
    /\ Len(checks) < MaxChecks
    /\ checks' = Append(checks, check)
    /\ regLog' = Append(regLog, check)
    /\ duringRun' = IF InRun THEN Append(duringRun, check) ELSE duringRun
    /\ UNCHANGED <<pc, idx, start, clock, results, kept, overall, runs,
                   log, checksAtCall, checksAtReturn>>
    /\ UNCHANGED scenes

\* run(), entry: results = []; the for statement creates the list iterator.
RunStart ==
    /\ pc \in {"idle", "returned", "raised"}
    /\ runs < MaxRuns
    /\ runs' = runs + 1
    /\ pc' = "loop"
    /\ idx' = 0
    /\ results' = <<>>
    /\ overall' = None
    /\ log' = <<>>
    /\ checksAtCall' = checks
    /\ duringRun' = <<>>
    /\ checksAtReturn' = <<>>
    /\ UNCHANGED <<checks, start, clock, kept, regLog>>
    /\ UNCHANGED scenes

\* a loop that empties the registry once it has gone through it
LoopNextDrains ==
    /\ pc = "loop"
    /\ IF idx < Len(checks)
       THEN /\ idx' = idx + 1
            /\ start' = clock
            /\ pc' = "probe"
            /\ UNCHANGED <<checks, checksAtReturn>>
       ELSE /\ pc' = "returned"
            /\ checks' = <<>>
            /\ checksAtReturn' = <<>>
            /\ UNCHANGED <<idx, start>>
    /\ UNCHANGED <<clock, results, kept, overall, runs, log, regLog,
                   checksAtCall, duringRun>>
    /\ UNCHANGED scenes

\* One step of "for check in self._checks": the iterator yields the entry at
\* its index while the index is inside the list as it is now, and run()
\* returns results once it is not.  With an entry in hand, start is read from
\* the clock and the probe is called.
LoopNext ==
    /\ pc = "loop"
    /\ IF idx < Len(checks)
       THEN /\ idx' = idx + 1
            /\ start' = clock
            /\ pc' = "probe"
            /\ UNCHANGED checksAtReturn
       ELSE /\ pc' = "returned"
            /\ checksAtReturn' = checks
            /\ UNCHANGED <<idx, start>>
    /\ UNCHANGED <<checks, clock, results, kept, overall, runs, log, regLog,
                   checksAtCall, duringRun>>
    /\ UNCHANGED scenes

\* Time passes while the probe runs.
Tick ==
    /\ pc = "probe"
    /\ clock < MaxClock
    /\ clock' = clock + 1
    /\ UNCHANGED <<checks, pc, idx, start, results, kept, overall, runs, log,
                   regLog, checksAtCall, duringRun, checksAtReturn>>
    /\ UNCHANGED scenes

\* an iterator that walks the registry from its end
CurrentReversed == checks[Len(checks) + 1 - idx]

\* The entry the iterator yielded last.
Current == checks[idx]

Elapsed == (clock - start) * 1000

LogEntry(kind, ref, rec, err) ==
    [probe |-> Current, kind |-> kind, ref |-> ref, rec |-> rec, err |-> err,
     elapsed |-> Elapsed]

\* The record objects one invocation of a probe may hand back: a record built
\* by this invocation, or the object the probe keeps.
Returnable(check) == {FreshRef(r) : r \in ProbeRecords(check)} \cup {KeptRef(check)}

\* result.duration_ms = (time.perf_counter() - start) * 1000
SetDurationRenaming(rec, ms) == [rec EXCEPT !.duration_ms = Some(ms), !.name = "check"]

\* a runner that leaves alone a duration_ms the probe has set
SetDurationIfUnset(rec, ms) ==
    IF rec.duration_ms = None THEN [rec EXCEPT !.duration_ms = Some(ms)] ELSE rec

SetDuration(rec, ms) == [rec EXCEPT !.duration_ms = Some(ms)]

\* results.insert(0, result) in place of results.append(result)
CollectFirst(seq, ref) == <<ref>> \o seq

\* results.append(result)
Collect(seq, ref) == Append(seq, ref)

\* result = check() returns a record object; its duration_ms is assigned in
\* place; the object is appended to results.
ProbeReturns ==
    /\ pc = "probe"
    /\ \E ref \in Returnable(Current) :
         /\ log' = Append(log, LogEntry("return", ref, Deref(ref), NoError))
         /\ IF ref.shared
            THEN /\ kept' = [kept EXCEPT ![ref.probe] = SetDuration(@, Elapsed)]
                 /\ results' = Collect(results, ref)
            ELSE /\ kept' = kept
                 /\ results' = Collect(results, FreshRef(SetDuration(ref.rec, Elapsed)))
    /\ pc' = "loop"
    /\ UNCHANGED <<checks, idx, start, clock, overall, runs, regLog,
                   checksAtCall, duringRun, checksAtReturn>>
    /\ UNCHANGED scenes

\* The classes among those of Errors that derive from Exception.
ExceptionSubclasses == {"ConnectionRefusedError"}

\* an except clause that names one class too narrow for the errors probes raise
CaughtNarrow(err) == err.cls \in {"ValueError"}

\* The except clause of run(): "except Exception as e" receives the errors
\* whose class derives from Exception.
Caught(err) == err.cls \in ExceptionSubclasses

\* a fallback that never looks at the probe
FallbackUnknown(check, err) == CheckResult("unknown", "unhealthy", Some(err.text), None)

\* CheckResult(name=getattr(check, "__name__", "unknown"),
\*             status=HealthStatus.unhealthy, message=str(e))
Fallback(check, err) ==
    CheckResult(IF DunderName(check) = None THEN "unknown" ELSE DunderName(check)[1],
                "unhealthy", Some(err.text), None)

\* the try statement around the whole loop: the first error ends the iteration
ProbeRaisesEndsLoop(err) ==
    /\ pc = "probe"
    /\ err \in Errors
    /\ log' = Append(log, LogEntry("raise", FreshRef(NoRecord), NoRecord, err))
    /\ results' = IF Caught(err) THEN Collect(results, FreshRef(Fallback(Current, err)))
                  ELSE results
    /\ pc' = IF Caught(err) THEN "returned" ELSE "raised"
    /\ checksAtReturn' = checks
    /\ UNCHANGED <<checks, idx, start, clock, kept, overall, runs, regLog,
                   checksAtCall, duringRun>>
    /\ UNCHANGED scenes

\* check() raises err.  The handler, when the error is one it receives, builds
\* the fallback record, which is appended to results, and the loop goes on;
\* any other error leaves run() and reaches its caller.
ProbeRaises(err) ==
    /\ pc = "probe"
    /\ err \in Errors
    /\ log' = Append(log, LogEntry("raise", FreshRef(NoRecord), NoRecord, err))
    /\ IF Caught(err)
       THEN /\ results' = Collect(results, FreshRef(Fallback(Current, err)))
            /\ pc' = "loop"
            /\ UNCHANGED checksAtReturn
       ELSE /\ pc' = "raised"
            /\ checksAtReturn' = checks
            /\ UNCHANGED results
    /\ UNCHANGED <<checks, idx, start, clock, kept, overall, runs, regLog,
                   checksAtCall, duringRun>>
    /\ UNCHANGED scenes

\* ---------------------------------------------------------- overall_status
RECURSIVE AnyStatus(_, _)
\* any(r.status == status for r in rs), scanning from the front.
AnyStatus(rs, status) ==
    IF rs = <<>> THEN FALSE
    ELSE IF Head(rs).status = status THEN TRUE
    ELSE AnyStatus(Tail(rs), status)

\* the two tests in the other order
overall_status_degraded_first(rs) ==
    IF AnyStatus(rs, "degraded") THEN "degraded"
    ELSE IF AnyStatus(rs, "unhealthy") THEN "unhealthy"
    ELSE "healthy"

overall_status(rs) ==
    IF AnyStatus(rs, "unhealthy") THEN "unhealthy"
    ELSE IF AnyStatus(rs, "degraded") THEN "degraded"
    ELSE "healthy"

\* The caller reduces the sequence run() returned.
OverallStatus ==
    /\ pc = "returned"
    /\ overall = None
    /\ overall' = Some(overall_status(Records(results)))
    /\ UNCHANGED <<checks, pc, idx, start, clock, results, kept, runs, log,
                   regLog, checksAtCall, duringRun, checksAtReturn>>
    /\ UNCHANGED scenes

Next ==
    \/ \E check \in Probes : Register(check)
    \/ RunStart
    \/ LoopNext
    \/ Tick
    \/ ProbeReturns
    \/ \E err \in Errors : ProbeRaises(err)
    \/ OverallStatus

Spec == Init /\ [][Next]_vars

\* ------------------------------------------------- run() as one operation
\* What one invocation of a probe may do, for a caller that lets run() go
\* from its first statement to its last with nothing in between: hand back a
\* record object after ms milliseconds, or raise.
RunOutcomes(check) ==
    { [kind |-> "return", ref |-> r, err |-> NoError, ms |-> t * 1000] :
          r \in Returnable(check), t \in 0..MaxClock }
    \cup { [kind |-> "raise", ref |-> FreshRef(NoRecord), err |-> e, ms |-> 0] : e \in Errors }

\* One iteration of the loop of run() on entry check, from acc: the results
\* so far, the record objects the probes keep, and whether an error has left
\* run().
RunStep(acc, check, o) ==
    IF o.kind = "return"
    THEN IF o.ref.shared
         THEN [acc EXCEPT !.kept[o.ref.probe] = SetDuration(@, o.ms),
                          !.results = Collect(@, o.ref)]
         ELSE [acc EXCEPT !.results = Collect(@, FreshRef(SetDuration(o.ref.rec, o.ms)))]
    ELSE IF Caught(o.err)
         THEN [acc EXCEPT !.results = Collect(@, FreshRef(Fallback(check, o.err)))]
         ELSE [acc EXCEPT !.raised = TRUE]

RECURSIVE RunFrom(_, _, _, _)
\* The loop of run() from entry k on, outs[k] being what the k-th invocation does.
RunFrom(reg, outs, k, acc) ==
    IF k > Len(reg) \/ acc.raised THEN acc
    ELSE RunFrom(reg, outs, k + 1, RunStep(acc, reg[k], outs[k]))

\* run() on registry reg, the probes keeping the objects keptObjs.
RunAll(reg, keptObjs, outs) ==
    RunFrom(reg, outs, 1, [results |-> <<>>, kept |-> keptObjs, raised |-> FALSE])

\* What the invocations of one run() over reg may do.
RunChoices(reg) ==
    { outs \in [1..Len(reg) -> UNION {RunOutcomes(p) : p \in Probes}] :
          \A k \in 1..Len(reg) : outs[k] \in RunOutcomes(reg[k]) }

\* ------------------------------------------------- fluent registration
\* Two Health instances: h1 is configured by one chained expression,
\* h1.register(a).register(b)..., h2 by separate statements whose value is
\* dropped; run() is then called on each.
Instances == {"h1", "h2"}

HealthInit ==
    /\ checks = <<>>
    /\ pc = "idle"
    /\ idx = 0
    /\ start = 0
    /\ clock = 0
    /\ results = <<>>
    /\ kept = [p \in Probes |-> KeptRecord(p)]
    /\ overall = None
    /\ runs = 0
    /\ log = <<>>
    /\ regLog = <<>>
    /\ checksAtCall = <<>>
    /\ duringRun = <<>>
    /\ checksAtReturn = <<>>

InitFluent ==
    /\ HealthInit
    /\ fluent = [regs |-> [h \in Instances |-> <<>>],     \* self._checks of each instance
                 given |-> [h \in Instances |-> <<>>],    \* history: the probes the caller wrote
                 recv |-> "h1",                           \* the value the chained expression has in hand
                 failed |-> FALSE,                        \* the chained expression raised
                 ran |-> [h \in Instances |-> None]]      \* what run() gave on each instance
    /\ reduce = Unused
    /\ builtin = Unused
    /\ later = Unused
    /\ live = Unused

\* a register() that returns nothing
RegisterReturnsNone(self) == "None"

\* register(): return self
RegisterReturn(self) == self

\* The next .register(check) of the chained expression: a call on the value
\* the expression has in hand, which is an instance, or an AttributeError.
ChainedRegister(check) ==
    /\ ~fluent.failed
    /\ fluent.ran["h1"] = None
    /\ Len(fluent.given["h1"]) < MaxChecks
    /\ fluent' = IF fluent.recv \in Instances
                 THEN [fluent EXCEPT !.regs[fluent.recv] = Append(@, check),
                                     !.given["h1"] = Append(@, check),
                                     !.recv = RegisterReturn(fluent.recv)]
                 ELSE [fluent EXCEPT !.given["h1"] = Append(@, check),
                                     !.failed = TRUE]
    /\ UNCHANGED <<health, reduce, builtin, later, live>>

\* h2.register(check) as a statement.
SeparateRegister(check) ==
    /\ fluent.ran["h2"] = None
    /\ Len(fluent.given["h2"]) < MaxChecks
    /\ fluent' = [fluent EXCEPT !.regs["h2"] = Append(@, check),
                                !.given["h2"] = Append(@, check)]
    /\ UNCHANGED <<health, reduce, builtin, later, live>>

\* h.run() is called, once the instance is configured.
RunInstance(h) ==
    /\ fluent.ran[h] = None
    /\ h = "h1" => ~fluent.failed
    /\ fluent' = [fluent EXCEPT
                     !.ran[h] = Some([raised |-> FALSE, returned |-> FALSE, n |-> 0])]
    /\ UNCHANGED <<health, reduce, builtin, later, live>>

\* One iteration of the loop of h.run(), or its return once the registry is
\* gone through; n counts the results collected.
RunInstanceStep(h) ==
    /\ fluent.ran[h] # None
    /\ ~fluent.ran[h][1].raised
    /\ ~fluent.ran[h][1].returned
    /\ LET ran == fluent.ran[h][1]
           invoked == IF ran.n < Len(fluent.regs[h]) THEN ran.n + 1 ELSE 1
       IN  IF ran.n < Len(fluent.regs[h])
           THEN \E o \in RunOutcomes(fluent.regs[h][invoked]) :
                    LET acc == RunStep([results |-> <<>>,
                                        kept |-> [p \in Probes |-> KeptRecord(p)],
                                        raised |-> FALSE],
                                       fluent.regs[h][invoked], o)
                    IN  fluent' = [fluent EXCEPT
                                      !.ran[h] = Some([raised |-> acc.raised,
                                                       returned |-> FALSE,
                                                       n |-> ran.n + Len(acc.results)])]
           ELSE fluent' = [fluent EXCEPT !.ran[h] = Some([ran EXCEPT !.returned = TRUE])]
    /\ UNCHANGED <<health, reduce, builtin, later, live>>

NextFluent ==
    \/ \E check \in Probes : ChainedRegister(check)
    \/ \E check \in Probes : SeparateRegister(check)
    \/ \E h \in Instances : RunInstance(h)
    \/ \E h \in Instances : RunInstanceStep(h)

SpecFluent == InitFluent /\ [][NextFluent]_vars

\* ---------------------------------------------- a caller of overall_status
\* The sequences run() can return, as records: what a caller has in hand to
\* pass to overall_status.
Registries == UNION { [1..n -> Probes] : n \in 0..MaxChecks }

RecordsOf(r) ==
    [k \in 1..Len(r.results) |->
        IF r.results[k].shared THEN r.kept[r.results[k].probe] ELSE r.results[k].rec]

ReturnedBy(reg) ==
    { RecordsOf(r) : r \in { q \in { RunAll(reg, [p \in Probes |-> KeptRecord(p)], outs) :
                                        outs \in RunChoices(reg) } : ~q.raised } }

ReturnedSequences == UNION { ReturnedBy(reg) : reg \in Registries }

InitReduce ==
    /\ HealthInit
    /\ \E rs \in ReturnedSequences :
           reduce = [rs |-> rs,          \* the list the caller passes
                     given |-> rs,       \* history: the list as first passed
                     returned |-> <<>>]  \* history: the statuses the calls returned
    /\ fluent = Unused
    /\ builtin = Unused
    /\ later = Unused
    /\ live = Unused

\* a reduction that takes the results off the list as it scans them
ConsumedByReduction(rs) == IF rs = <<>> THEN rs ELSE Tail(rs)

\* The list as overall_status leaves it: the two any() scans read r.status
\* of each element and write nothing.
AfterReduction(rs) == rs

\* overall_status(rs), called on the same list up to twice.
CallOverallStatus ==
    /\ Len(reduce.returned) < 2
    /\ reduce' = [reduce EXCEPT !.returned = Append(@, overall_status(reduce.rs)),
                                !.rs = AfterReduction(@)]
    /\ UNCHANGED <<health, fluent, builtin, later, live>>

NextReduce == CallOverallStatus

SpecReduce == InitReduce /\ [][NextReduce]_vars

\* ------------------------------------------------------- built-in probes
\* The probes of checks/: the factory create_<kind>_check returns the closure
\* check, whose __name__ is "check".
BuiltinKinds == {"redis", "postgresql", "rabbitmq", "sqlite"}

\* The name each check() writes into its records.
BuiltinName(kind) == kind

\* The calls check() makes inside its try block, in order.
Steps(kind) ==
    CASE kind = "redis" -> <<"ping">>
      [] kind = "postgresql" -> <<"connect", "cursor", "execute", "close">>
      [] kind = "rabbitmq" -> <<"connect", "close">>
      [] kind = "sqlite" ->
             <<"connect", "cursor", "execute", "fetchone", "cur.close", "close">>

\* The positional parameters each factory under checks/ declares.
FactoryParams(kind) ==
    CASE kind = "redis" -> <<"redis_url", "timeout">>
      [] kind = "postgresql" -> <<"dsn", "timeout">>
      [] kind = "rabbitmq" -> <<"amqp_url", "timeout">>
      [] kind = "sqlite" -> <<"db_path", "timeout">>

\* The helpers of Health whose factory module is among the sources, and the
\* positional arguments each passes to its factory.
HelperKinds == {"redis", "sqlite"}

HelperArgs(kind) ==
    IF kind = "redis" THEN <<"redis_url", "timeout", "name">>
    ELSE <<"db_path", "timeout", "name">>

\* A call binds its positional arguments to the parameters, or is a TypeError.
Binds(params, args) == Len(args) <= Len(params)

\* The errors the client libraries raise in a step: classes derived from Exception.
DriverErrors == {e \in Errors : e.cls \in ExceptionSubclasses}

\* The connection of this invocation after a step that went through: connect
\* opens it and close closes it.  ping goes through the client the factory
\* built, which manages connections of its own; check() opens none.
ConnAfter(step, conn) ==
    CASE step = "connect" -> {"open"}
      [] step = "close" -> {"closed"}
      [] OTHER -> {conn}

\* The connection after a step that raised: a failed connect opened nothing,
\* a failed close leaves what the client library leaves, any other step leaves
\* the connection as it was.
ConnAfterError(step, conn) ==
    CASE step = "connect" -> {"none"}
      [] step = "close" -> {"open", "closed"}
      [] OTHER -> {conn}

\* The connection once check() has returned: one check() did not close is
\* closed only if its object is finalized, which may happen by then or not.
ConnAtReturn(conn) == IF conn = "open" THEN {"open", "closed"} ELSE {conn}

InitBuiltin ==
    /\ HealthInit
    /\ builtin = [reg |-> <<>>,       \* self._checks: the kind of each registered probe
                  helper |-> None,    \* history: the last helper call made
                  pc |-> "idle",      \* idle, loop, check, done
                  idx |-> 0,          \* the list iterator's index
                  at |-> 0,           \* the step check() is at
                  conn |-> "none",    \* the connection of this invocation
                  conns |-> <<>>,     \* history: the connection at the end of each invocation
                  calls |-> <<>>,     \* history: what each check() did
                  acc |-> [results |-> <<>>,
                           kept |-> [p \in Probes |-> KeptRecord(p)],
                           raised |-> FALSE]]
    /\ fluent = Unused
    /\ reduce = Unused
    /\ later = Unused
    /\ live = Unused

\* h.register(create_<kind>_check(target)): the factory called with the
\* parameters it declares.
RegisterBuiltin(kind) ==
    /\ builtin.pc = "idle"
    /\ Len(builtin.reg) < MaxChecks
    /\ builtin' = [builtin EXCEPT !.reg = Append(@, kind)]
    /\ UNCHANGED <<health, fluent, reduce, later, live>>

\* h.redis_check(...), h.sqlite_check(...): check = create_<kind>_check(target,
\* timeout, name); self.register(check); return self.  The call is recorded
\* with what it did: the error it raised, whether the registry is the one
\* before the call with one probe of the kind appended, the value returned.
HelperCall(kind) ==
    /\ builtin.pc = "idle"
    /\ kind \in HelperKinds
    /\ Len(builtin.reg) < MaxChecks
    /\ builtin' =
           IF Binds(FactoryParams(kind), HelperArgs(kind))
           THEN [builtin EXCEPT
                    !.reg = Append(@, kind),
                    !.helper = Some([kind |-> kind, error |-> None,
                                     appended |-> TRUE, returned |-> "self"])]
           ELSE [builtin EXCEPT
                    !.helper = Some([kind |-> kind, error |-> Some("TypeError"),
                                     appended |-> FALSE, returned |-> ""])]
    /\ UNCHANGED <<health, fluent, reduce, later, live>>

\* h.run() is called.
BuiltinRunStart ==
    /\ builtin.pc = "idle"
    /\ builtin' = [builtin EXCEPT !.pc = "loop"]
    /\ UNCHANGED <<health, fluent, reduce, later, live>>

\* The loop of run() yields the next probe and calls it, or run() returns.
BuiltinLoopNext ==
    /\ builtin.pc = "loop"
    /\ builtin' = IF builtin.idx < Len(builtin.reg) /\ ~builtin.acc.raised
                  THEN [builtin EXCEPT !.idx = @ + 1, !.at = 1, !.conn = "none",
                                       !.pc = "check"]
                  ELSE [builtin EXCEPT !.pc = "done"]
    /\ UNCHANGED <<health, fluent, reduce, later, live>>

BuiltinCurrent == builtin.reg[builtin.idx]

\* a check() whose handler receives nothing
BuiltinCaughtNothing(err) == FALSE

\* The except clause of each check(): "except Exception as e".
BuiltinCaught(err) == err.cls \in ExceptionSubclasses

\* check() is over with outcome o and the connection in state conn: the
\* iteration of run() that called it takes the outcome.
BuiltinEnds(o, conn, failure) ==
    \E c \in ConnAtReturn(conn) :
        builtin' = [builtin EXCEPT
            !.conns = Append(@, c),
            !.calls = Append(@, [kind |-> BuiltinCurrent, failure |-> failure, outcome |-> o]),
            !.acc = RunStep(@, "check", o),
            !.pc = "loop"]

\* The step check() is at goes through; after the last one check() returns
\* CheckResult(name, HealthStatus.healthy).
StepOk ==
    /\ builtin.pc = "check"
    /\ LET steps == Steps(BuiltinCurrent)
       IN  IF builtin.at <= Len(steps)
           THEN \E c \in ConnAfter(steps[builtin.at], builtin.conn) :
                    builtin' = [builtin EXCEPT !.at = @ + 1, !.conn = c]
           ELSE BuiltinEnds([kind |-> "return",
                             ref |-> FreshRef(CheckResult(BuiltinName(BuiltinCurrent),
                                                          "healthy", None, None)),
                             err |-> NoError, ms |-> Elapsed],
                            builtin.conn, None)
    /\ UNCHANGED <<health, fluent, reduce, later, live>>

\* The step check() is at raises err: the handler returns
\* CheckResult(name, HealthStatus.unhealthy, str(e)), or the error leaves check().
StepFails(err) ==
    /\ builtin.pc = "check"
    /\ err \in DriverErrors
    /\ builtin.at <= Len(Steps(BuiltinCurrent))
    /\ \E c \in ConnAfterError(Steps(BuiltinCurrent)[builtin.at], builtin.conn) :
           IF BuiltinCaught(err)
           THEN BuiltinEnds([kind |-> "return",
                             ref |-> FreshRef(CheckResult(BuiltinName(BuiltinCurrent),
                                                          "unhealthy", Some(err.text), None)),
                             err |-> NoError, ms |-> Elapsed],
                            c, Some(err.text))
           ELSE BuiltinEnds([kind |-> "raise", ref |-> FreshRef(NoRecord),
                             err |-> err, ms |-> 0],
                            c, Some(err.text))
    /\ UNCHANGED <<health, fluent, reduce, later, live>>

NextBuiltin ==
    \/ \E kind \in BuiltinKinds : RegisterBuiltin(kind)
    \/ \E kind \in HelperKinds : HelperCall(kind)
    \/ BuiltinRunStart
    \/ BuiltinLoopNext
    \/ StepOk
    \/ \E err \in DriverErrors : StepFails(err)

SpecBuiltin == InitBuiltin /\ [][NextBuiltin]_vars

\* ------------------------------------------- a caller that keeps a sequence
\* A caller registers its probes, calls run() and keeps the sequence it got,
\* then calls run() again: an earlier and a later run of one instance, the
\* probes keeping their record objects from one run to the next.
InitLater ==
    /\ HealthInit
    /\ later = [reg |-> <<>>,      \* self._checks
                kept |-> [p \in Probes |-> KeptRecord(p)],
                                   \* the record object each probe keeps
                clock |-> 0,       \* time.perf_counter()
                pc |-> "idle",     \* idle, run, raised
                refs |-> <<>>,     \* run()'s local results
                ms |-> <<>>,       \* history: the elapsed time of each invocation of this run
                normal |-> <<>>,   \* history: whether each invocation of this run returned
                latest |-> [p \in Probes |-> None],
                                   \* history: the elapsed time of the latest invocation
                                   \* that handed back the object the probe keeps
                held |-> <<>>]     \* the sequences the caller holds, with each one's history
    /\ fluent = Unused
    /\ reduce = Unused
    /\ builtin = Unused
    /\ live = Unused

LaterDeref(ref) == IF ref.shared THEN later.kept[ref.probe] ELSE ref.rec

LaterRegister(check) ==
    /\ later.pc = "idle"
    /\ later.held = <<>>
    /\ Len(later.reg) < MaxChecks
    /\ later' = [later EXCEPT !.reg = Append(@, check)]
    /\ UNCHANGED <<health, fluent, reduce, builtin, live>>

\* run(), entry: results = [].
LaterRunStart ==
    /\ later.pc = "idle"
    /\ Len(later.held) < 2
    /\ later.reg # <<>>
    /\ later' = [later EXCEPT !.pc = "run", !.refs = <<>>, !.ms = <<>>, !.normal = <<>>]
    /\ UNCHANGED <<health, fluent, reduce, builtin, live>>

\* One iteration of the loop of run(): the next probe is invoked, does o
\* while o.ms milliseconds pass, and the runner takes what it did.
LaterIteration ==
    /\ later.pc = "run"
    /\ Len(later.ms) < Len(later.reg)
    /\ LET check == later.reg[Len(later.ms) + 1]
       IN  \E o \in RunOutcomes(check) :
               /\ later.clock * 1000 + o.ms <= MaxClock * 1000
               /\ LET acc == RunStep([results |-> later.refs, kept |-> later.kept,
                                      raised |-> FALSE], check, o)
                  IN  later' = [later EXCEPT
                                   !.refs = acc.results,
                                   !.kept = acc.kept,
                                   !.clock = @ + (o.ms \div 1000),
                                   !.ms = Append(@, o.ms),
                                   !.normal = Append(@, o.kind = "return"),
                                   !.latest = IF o.kind = "return" /\ o.ref.shared
                                              THEN [@ EXCEPT ![o.ref.probe] = Some(o.ms)]
                                              ELSE @,
                                   !.pc = IF acc.raised THEN "raised" ELSE "run"]
    /\ UNCHANGED <<health, fluent, reduce, builtin, live>>

\* return results: the caller holds the list run() built.
LaterRunReturns ==
    /\ later.pc = "run"
    /\ Len(later.ms) = Len(later.reg)
    /\ later' = [later EXCEPT
                    !.pc = "idle",
                    !.held = Append(@, [refs |-> later.refs, ms |-> later.ms,
                                        normal |-> later.normal,
                                        seen |-> [k \in 1..Len(later.refs) |->
                                                     LaterDeref(later.refs[k])]])]
    /\ UNCHANGED <<health, fluent, reduce, builtin, live>>

NextLater ==
    \/ \E check \in Probes : LaterRegister(check)
    \/ LaterRunStart
    \/ LaterIteration
    \/ LaterRunReturns

SpecLater == InitLater /\ [][NextLater]_vars

\* ------------------------------------------------- the iterator of run()
\* run() reduced to what decides whether it ends: the list iterator of
\* "for check in self._checks", held as the entries of the registry it has yet
\* to yield, the probe in hand, and what the last invocation did.  register()
\* may be called before run() and by a probe while it is invoked.
InitLive ==
    /\ HealthInit
    /\ live = [pc |-> "idle",      \* idle, loop, probe, returned, raised
               ahead |-> <<>>,     \* self._checks from the iterator's index on
               current |-> "",     \* check, while it is invoked
               last |-> "",        \* what the runner took from the last invocation
               grew |-> FALSE]     \* history: register() was called during this run
    /\ fluent = Unused
    /\ reduce = Unused
    /\ builtin = Unused
    /\ later = Unused

\* register(check): self._checks.append(check).  The iterator of a run() in
\* progress reads the same list.
LiveRegister(check) ==
    /\ live.pc \in {"idle", "probe"}
    /\ Len(live.ahead) < MaxChecks
    /\ live' = [live EXCEPT !.ahead = Append(@, check),
                            !.grew = (live.pc = "probe")]
    /\ UNCHANGED <<health, fluent, reduce, builtin, later>>

LiveRunStart ==
    /\ live.pc = "idle"
    /\ live' = [live EXCEPT !.pc = "loop"]
    /\ UNCHANGED <<health, fluent, reduce, builtin, later>>

\* One step of the for statement: the iterator yields its next entry, or the
\* loop is over and run() returns results.
LiveLoopNext ==
    /\ live.pc = "loop"
    /\ live' = IF live.ahead # <<>>
               THEN [live EXCEPT !.pc = "probe", !.current = Head(live.ahead),
                                 !.ahead = Tail(@)]
               ELSE [live EXCEPT !.pc = "returned", !.current = ""]
    /\ UNCHANGED <<health, fluent, reduce, builtin, later>>

\* The invocation in progress ends with outcome o: the runner collects the
\* record handed back or the fallback and goes on with the loop, or an error
\* the handler does not receive leaves run().
LiveProbeEnds(o) ==
    /\ live.pc = "probe"
    /\ o \in RunOutcomes(live.current)
    /\ live' = IF o.kind = "return"
               THEN [live EXCEPT !.pc = "loop",
                                 !.last = IF o.ref.shared THEN "kept" ELSE "built"]
               ELSE IF Caught(o.err)
                    THEN [live EXCEPT !.pc = "loop", !.last = "fallback"]
                    ELSE [live EXCEPT !.pc = "raised", !.last = o.err.cls]
    /\ UNCHANGED <<health, fluent, reduce, builtin, later>>

AnyOutcome == UNION {RunOutcomes(p) : p \in Probes}

NextLive ==
    \/ \E check \in Probes : LiveRegister(check)
    \/ LiveRunStart
    \/ LiveLoopNext
    \/ \E o \in AnyOutcome : LiveProbeEnds(o)

\* The for statement goes on whenever it can, and every invocation of a
\* probe ends; nothing obliges anyone to call register() or run().
LiveFairness ==
    /\ WF_vars(LiveLoopNext)
    /\ WF_vars(\E o \in AnyOutcome : LiveProbeEnds(o))

SpecLive == InitLive /\ [][NextLive]_vars /\ LiveFairness

\* ------------------------------------------------------------- properties
\* What the k-th invocation of the current run handed to the runner, and what
\* the runner reports for it, compared on the fields the probe (or, for an
\* error, the handler) writes.
Reported(k) == Deref(results[k])

ReportsOutcome(k) ==
    IF log[k].kind = "return"
    THEN /\ results[k].shared = log[k].ref.shared
         /\ results[k].probe = log[k].ref.probe
         /\ Reported(k).name = log[k].rec.name
         /\ Reported(k).status = log[k].rec.status
         /\ Reported(k).message = log[k].rec.message
    ELSE /\ ~results[k].shared
         /\ Reported(k).status = "unhealthy"
         /\ Reported(k).message = Some(log[k].err.text)

\* C1 - failure isolation: in a run() that returns, when the invocation of
\* registry entry i raised, every entry i+1..n was still invoked in that run,
\* in its turn, and has its own entry in the returned sequence.
C1_FailureIsolation ==
    pc = "returned" =>
        \A i \in 1..Len(log) :
            log[i].kind = "raise" =>
                \A j \in (i + 1)..Len(checksAtReturn) :
                    /\ j <= Len(log)
                    /\ log[j].probe = checksAtReturn[j]
                    /\ j <= Len(results)
                    /\ ReportsOutcome(j)

C1_Witness ==
    /\ pc = "returned"
    /\ Len(checksAtReturn) = MaxChecks
    /\ log[1].kind = "raise"
    /\ \A j \in 2..MaxChecks : log[j].kind = "return"

\* C2 - run() returns exactly one result per registry entry, the result at
\* position k being the outcome of the probe registered k-th, whatever the
\* mix of returning and raising probes, duplicates included; with no
\* register() call during the run that registry is the one run() was called on.
C2_OneResultPerProbeInOrder ==
    pc = "returned" =>
        /\ Len(results) = Len(checksAtReturn)
        /\ Len(log) = Len(results)
        /\ \A k \in 1..Len(results) :
               /\ log[k].probe = checksAtReturn[k]
               /\ ReportsOutcome(k)
        /\ duringRun = <<>> => Len(results) = Len(checksAtCall)

C2_Witness ==
    /\ pc = "returned"
    /\ duringRun = <<>>
    /\ Len(results) = MaxChecks
    /\ \A k \in 1..MaxChecks : checksAtCall[k] = "check_cache"
    /\ log[1].kind = "raise"
    /\ Reported(1).name = "check_cache"
    /\ log[MaxChecks].kind = "return"
    /\ Reported(MaxChecks).name = "cache"
    /\ Reported(MaxChecks).status = "healthy"

\* C3 as stated - run() never fails towards its caller, whatever kind of
\* error a probe raises (here already with no register() call during the run).
C3_RunNeverRaises == duringRun = <<>> => pc # "raised"

\* C3 as amended - an error whose class derives from Exception never leaves
\* run(): the probe is reported unhealthy and the run goes on to return one
\* result per registry entry.  run() fails towards its caller only on an error
\* whose class does not derive from Exception.
C3_OnlyNonExceptionLeavesRun ==
    /\ \A k \in 1..Len(log) :
           (log[k].kind = "raise" /\ log[k].err.cls \in ExceptionSubclasses) =>
               /\ k <= Len(results)
               /\ Reported(k).status = "unhealthy"
    /\ pc = "raised" =>
           /\ log[Len(log)].kind = "raise"
           /\ log[Len(log)].err.cls \notin ExceptionSubclasses
    /\ pc = "returned" => Len(results) = Len(checksAtReturn)

C3_Witness ==
    /\ pc = "returned"
    /\ Len(results) = MaxChecks
    /\ \A k \in 1..MaxChecks : log[k].kind = "raise"

\* C4 - every result of the sequence run() returns has duration_ms set and
\* non-negative, for a probe that returned and for a probe that raised (here
\* already with no register() call during the run).
C4_DurationSetAndNonNegative ==
    (pc = "returned" /\ duringRun = <<>>) =>
        \A k \in 1..Len(results) :
            /\ Reported(k).duration_ms # None
            /\ Reported(k).duration_ms[1] >= 0

\* The result sequences overall_status is compared on, beside the one it was
\* given: every sequence of statuses as long as a registry can be.
StatusSeqs ==
    UNION { [1..n -> {[status |-> st] : st \in HealthStatus}] : n \in 0..MaxChecks }

StatusesOf(rs) == {rs[k].status : k \in 1..Len(rs)}

\* C5 - overall_status is the worst-of reduction: unhealthy iff some result is
\* unhealthy, degraded iff none is unhealthy and some is degraded, healthy
\* otherwise (so for the empty sequence); any two sequences holding the same
\* statuses, in whatever order and number, reduce to the same status.
C5_WorstOf ==
    overall # None =>
        LET rs == Records(results)
            present == StatusesOf(rs)
        IN  /\ overall[1] = "unhealthy" <=> "unhealthy" \in present
            /\ overall[1] = "degraded" <=>
                   ("unhealthy" \notin present /\ "degraded" \in present)
            /\ overall[1] = "healthy" <=>
                   ("unhealthy" \notin present /\ "degraded" \notin present)
            /\ rs = <<>> => overall[1] = "healthy"
            /\ \A other \in StatusSeqs :
                   StatusesOf(other) = present => overall_status(other) = overall[1]

C5_Witness ==
    /\ overall = Some("unhealthy")
    /\ Len(results) = MaxChecks
    /\ Reported(1).status = "degraded"
    /\ Reported(MaxChecks).status = "unhealthy"

\* C6 - the result reported for a probe that raised is the fallback record:
\* status unhealthy, message the text of the error, name the probe's __name__
\* or "unknown" when the probe exposes none.
C6_FallbackRecord ==
    \A k \in 1..Len(results) :
        log[k].kind = "raise" =>
            /\ Reported(k).status = "unhealthy"
            /\ Reported(k).message = Some(log[k].err.text)
            /\ Reported(k).name = IF log[k].probe = "partial" THEN "unknown"
                                  ELSE log[k].probe

C6_Witness ==
    /\ pc = "returned"
    /\ Len(results) = MaxChecks
    /\ log[1].kind = "raise"
    /\ log[1].probe = "check_cache"
    /\ Reported(1).name = "check_cache"
    /\ log[MaxChecks].kind = "raise"
    /\ log[MaxChecks].probe = "partial"
    /\ Reported(MaxChecks).name = "unknown"
    /\ Reported(MaxChecks).message = Some("refused")

\* C7 - for a probe that returned, run() reports the very record object the
\* probe handed back, with name, status and message as the probe set them.
C7_ProbeFieldsKept ==
    \A k \in 1..Len(results) :
        log[k].kind = "return" =>
            /\ results[k].shared = log[k].ref.shared
            /\ results[k].probe = log[k].ref.probe
            /\ Reported(k).name = log[k].rec.name
            /\ Reported(k).status = log[k].rec.status
            /\ Reported(k).message = log[k].rec.message

C7_Witness ==
    /\ pc = "returned"
    /\ Len(results) = MaxChecks
    /\ log[1].kind = "return"
    /\ log[1].rec = CheckResult("cache", "unhealthy", Some("down"), Some(-1))
    /\ Reported(1) = CheckResult("cache", "unhealthy", Some("down"), Some(1000))
    /\ log[MaxChecks].kind = "return"
    /\ results[MaxChecks].shared

\* C8 - the sequence run() returns has the length and the order of the
\* registry as it was when run() was called, register() calls made during the
\* run included.
C8_LengthAndOrderAsAtCall ==
    pc = "returned" =>
        /\ Len(results) = Len(checksAtCall)
        /\ \A k \in 1..Len(results) : log[k].probe = checksAtCall[k]

\* C9 - run() leaves the registry alone: while it runs and when it ends, by
\* returning or by raising, the registry is the one it was called on, followed
\* by what register() was given meanwhile; with no such register() call it is
\* the registry run() was called on.
C9_RunLeavesRegistry ==
    /\ InRun => checks = checksAtCall \o duringRun
    /\ pc \in {"returned", "raised"} => checksAtReturn = checksAtCall \o duringRun

C9_Witness ==
    /\ pc = "returned"
    /\ duringRun = <<>>
    /\ Len(checksAtCall) = MaxChecks
    /\ checksAtReturn = checksAtCall
    /\ log[1].kind = "raise"
    /\ log[MaxChecks].kind = "return"

\* C10 - the registry is at every moment the sequence of the probes passed
\* to register(), in call order, a probe registered twice being there twice;
\* neither register() nor run() removes or reorders an entry, and register()
\* can be called, for any probe, in every state the instance is in.
C10_RegistryIsRegistrations ==
    /\ checks = regLog
    /\ Len(checks) < MaxChecks => \A check \in Probes : ENABLED Register(check)

C10_Witness ==
    /\ pc = "returned"
    /\ runs = MaxRuns
    /\ Len(results) < MaxChecks
    /\ checks = [k \in 1..MaxChecks |-> "partial"]

\* C14 - during one run() the probes are invoked one at a time in
\* registration order: the k-th invocation is of the k-th registry entry, an
\* entry is invoked only once every earlier invocation has returned or raised,
\* a run() that returns has invoked each entry exactly once; and a step of
\* register() or overall_status() invokes nothing.
C14_InOrderState ==
    /\ idx <= Len(checks)
    /\ pc = "probe" => Len(log) = idx - 1
    /\ pc \in {"loop", "returned"} => Len(log) = idx
    /\ \A k \in 1..Len(log) : log[k].probe = checks[k]
    /\ pc = "returned" => Len(log) = Len(checksAtReturn)

C14_OneAtATimeInOrder ==
    /\ []C14_InOrderState
    /\ [][(checks' # checks \/ (overall' # overall /\ overall' # None))
              => UNCHANGED <<pc, idx, start, log, results, kept>>]_vars

C14_Witness ==
    /\ pc = "probe"
    /\ idx = MaxChecks
    /\ Len(log) = MaxChecks - 1
    /\ checks[1] # checks[MaxChecks]
    /\ log[1].probe = checks[1]

\* C11 - register() returns the instance it was called on: the chained
\* expression keeps that instance in hand and never fails, so the instance
\* configured by chained calls and the one configured by separate calls each
\* hold exactly the probes written for them, in order, and a run() that
\* returns yields one result per probe written, in both cases.
C11_ChainedAsSeparate ==
    /\ ~fluent.failed
    /\ fluent.recv = "h1"
    /\ \A h \in Instances : fluent.regs[h] = fluent.given[h]
    /\ \A h \in Instances :
           (fluent.ran[h] # None /\ fluent.ran[h][1].returned) =>
               fluent.ran[h][1].n = Len(fluent.given[h])

C11_Witness ==
    /\ Len(fluent.given["h1"]) = MaxChecks
    /\ fluent.given["h1"] = fluent.given["h2"]
    /\ fluent.regs["h1"] = fluent.regs["h2"]
    /\ \A h \in Instances :
           /\ fluent.ran[h] # None
           /\ fluent.ran[h][1].returned
           /\ fluent.ran[h][1].n = MaxChecks

C13_NoConnectionLeft ==
    \A k \in 1..Len(builtin.conns) : builtin.conns[k] # "open"

\* C15 - a built-in check() never raises to the runner: with every step gone
\* through it returns its fixed non-empty name, healthy, message and
\* duration_ms unset; with a step raising it returns the same name, unhealthy,
\* the text of the error, duration_ms unset.  No result of a run() over
\* built-in probes is named "unknown".
C15_BuiltinAlwaysReturns ==
    /\ ~builtin.acc.raised
    /\ \A k \in 1..Len(builtin.calls) :
           LET c == builtin.calls[k]
               rec == c.outcome.ref.rec
           IN  /\ c.outcome.kind = "return"
               /\ rec.name = c.kind
               /\ rec.name \in {"redis", "postgresql", "rabbitmq", "sqlite"}
               /\ rec.duration_ms = None
               /\ c.failure = None => (rec.status = "healthy" /\ rec.message = None)
               /\ c.failure # None => (rec.status = "unhealthy" /\ rec.message = c.failure)
    /\ Len(builtin.acc.results) = Len(builtin.calls)
    /\ \A k \in 1..Len(builtin.acc.results) :
           /\ builtin.acc.results[k].rec.name # "unknown"
           /\ builtin.acc.results[k].rec.name = builtin.reg[k]

C15_Witness ==
    /\ builtin.pc = "done"
    /\ Len(builtin.calls) = MaxChecks
    /\ builtin.calls[1].kind = "sqlite"
    /\ builtin.calls[1].failure = Some("refused")
    /\ builtin.acc.results[1].rec.status = "unhealthy"
    /\ builtin.calls[MaxChecks].kind = "redis"
    /\ builtin.calls[MaxChecks].failure = None
    /\ builtin.acc.results[MaxChecks].rec.status = "healthy"

\* C18 - a call of the helper redis_check or sqlite_check completes
\* without error, appends exactly one probe of its kind at the end of the
\* registry and returns the instance.
C18_HelperRegisters ==
    builtin.helper # None =>
        /\ builtin.helper[1].error = None
        /\ builtin.helper[1].appended
        /\ builtin.helper[1].returned = "self"

\* C16 - in every sequence run() returned, the result of an invocation that
\* returned normally shows the elapsed time of that invocation, whatever the
\* probe had put in duration_ms, with the same probe registered several
\* times, with a probe handing back one record on several invocations, and
\* after a later run().
C16_DurationIsOwnElapsed ==
    \A j \in 1..Len(later.held) :
        \A k \in 1..Len(later.held[j].refs) :
            later.held[j].normal[k] =>
                /\ LaterDeref(later.held[j].refs[k]).duration_ms = Some(later.held[j].ms[k])
                /\ LaterDeref(later.held[j].refs[k]) = later.held[j].seen[k]

\* C16, amended - a result whose record object no other invocation hands
\* back shows the elapsed time of its own invocation, whatever the probe had
\* put in duration_ms, and is the same after a later run(); a record object a
\* probe hands back on several invocations shows, at every position holding
\* it, the elapsed time of the latest invocation that handed it back, its
\* other fields as they were.
C16_DurationOfLatestReturn ==
    \A j \in 1..Len(later.held) :
        \A k \in 1..Len(later.held[j].refs) :
            later.held[j].normal[k] =>
                LET ref == later.held[j].refs[k]
                IN  IF ref.shared
                    THEN LaterDeref(ref) =
                             [later.held[j].seen[k] EXCEPT
                                 !.duration_ms = later.latest[ref.probe]]
                    ELSE /\ LaterDeref(ref).duration_ms = Some(later.held[j].ms[k])
                         /\ LaterDeref(ref) = later.held[j].seen[k]

C16_Witness ==
    /\ Len(later.held) = 2
    /\ Len(later.held[1].refs) = MaxChecks
    /\ later.held[1].refs[1].shared
    /\ later.held[1].ms[1] = MaxClock * 1000
    /\ later.held[2].refs[1].shared
    /\ later.held[2].ms[1] = 0
    /\ LaterDeref(later.held[1].refs[1]).duration_ms = Some(0)
    /\ ~later.held[1].refs[MaxChecks].shared
    /\ later.held[1].normal[MaxChecks]
    /\ later.held[1].seen[MaxChecks].message = Some("down")
    /\ LaterDeref(later.held[1].refs[MaxChecks]).duration_ms = Some(0)

\* C17 - run() terminates: with every invocation of a probe ending, a run()
\* that was called comes to its end after finitely many invocations, probes
\* that call register() on the instance during the run included.
C17_RunTerminates == (live.pc \in {"loop", "probe"}) ~> (live.pc \in {"returned", "raised"})
====
